---------------------------- MODULE Spec2Model ----------------------------
(***************************************************************************)
(* Model of the bank-statement pipeline of src/extract.py (CLIProcessor):  *)
(* extract_table_from_pdf, extract_account_number, parse_description,      *)
(* create_balance_validation_file and process_files.                       *)
(*                                                                         *)
(* Representation.                                                         *)
(*  - A text is a sequence of one-character strings; None (an empty cell   *)
(*    of the table extractor) and a missing value of a text column are the *)
(*    one-element sequences NoneCell and NaNText, whose element is not a   *)
(*    character.                                                           *)
(*  - An amount is an integer number of hundredths; the float NaN of a     *)
(*    numeric column is the value NaN; the missing date is NaT; a date is  *)
(*    a positive day ordinal.                                              *)
(*  - A DataFrame is a sequence of records (rows in order); the field idx  *)
(*    of a row is its index label.                                         *)
(***************************************************************************)
EXTENDS Integers, Sequences, FiniteSets, TLC

(* ----------------------------- bounds ---------------------------------- *)
\* documents in the input folder, and table rows in all of them together
MaxDocs == 2
MaxRows == 4
\* pages of a document whose pages vary
MaxPages == 2

(* --------------------------- missing values ---------------------------- *)
NoneCell == <<"None">>
NaNText == <<"NaN">>
NaN == -100000
NaT == 0

(* ------------------------------ texts ---------------------------------- *)
Digits == <<"0", "1", "2", "3", "4", "5", "6", "7", "8", "9">>

IsDigit(c) == \E k \in 1..10 : Digits[k] = c

DigitVal(c) == (CHOOSE k \in 1..10 : Digits[k] = c) - 1

Whitespace == {" ", "\n"}

RECURSIVE LStrip(_)
LStrip(s) ==
  IF s # <<>> /\ Head(s) \in Whitespace THEN LStrip(Tail(s)) ELSE s

RECURSIVE RStrip(_)
RStrip(s) ==
  IF s # <<>> /\ s[Len(s)] \in Whitespace
  THEN RStrip(SubSeq(s, 1, Len(s) - 1)) ELSE s

\* str.strip()
Strip(s) == RStrip(LStrip(s))

\* str.replace(c, d) for a one-character c
RECURSIVE ReplaceChar(_, _, _)
ReplaceChar(s, c, d) ==
  IF s = <<>> THEN <<>>
  ELSE (IF Head(s) = c THEN d ELSE <<Head(s)>>) \o ReplaceChar(Tail(s), c, d)

\* str.replace(p, '') for a two-character p, scanning left to right
RECURSIVE RemovePair(_, _)
RemovePair(s, p) ==
  IF Len(s) < 2 THEN s
  ELSE IF SubSeq(s, 1, 2) = p THEN RemovePair(SubSeq(s, 3, Len(s)), p)
  ELSE <<Head(s)>> \o RemovePair(Tail(s), p)

\* str.split(sep): always at least one part
RECURSIVE SplitFrom(_, _, _)
SplitFrom(s, sep, cur) ==
  IF s = <<>> THEN <<cur>>
  ELSE IF Head(s) = sep THEN <<cur>> \o SplitFrom(Tail(s), sep, <<>>)
  ELSE SplitFrom(Tail(s), sep, Append(cur, Head(s)))

Split(s, sep) == SplitFrom(s, sep, <<>>)

\* code points of the characters that occur in account identifiers
Ord(c) ==
  IF c = "-" THEN 45
  ELSE IF IsDigit(c) THEN 48 + DigitVal(c)
  ELSE IF c = "U" THEN 85
  ELSE IF c = "k" THEN 107
  ELSE IF c = "n" THEN 110
  ELSE IF c = "o" THEN 111
  ELSE 119

\* Python's < on str: lexicographic by code point
RECURSIVE StrLess(_, _)
StrLess(a, b) ==
  IF b = <<>> THEN FALSE
  ELSE IF a = <<>> THEN TRUE
  ELSE IF Head(a) = Head(b) THEN StrLess(Tail(a), Tail(b))
  ELSE Ord(Head(a)) < Ord(Head(b))

(* ------------------------- field conversions --------------------------- *)
RECURSIVE DigitsValue(_)
DigitsValue(s) ==
  IF s = <<>> THEN 0 ELSE 10 * DigitsValue(SubSeq(s, 1, Len(s) - 1)) + DigitVal(s[Len(s)])

AllDigits(s) == s # <<>> /\ \A k \in 1..Len(s) : IsDigit(s[k])

\* whole.frac in hundredths, NaN unless both are digits, at most two of
\* them fractional
Hundredths(whole, frac) ==
  IF whole \o frac # <<>> /\ AllDigits(whole \o frac) /\ Len(frac) <= 2
  THEN 100 * DigitsValue(whole)
         + (IF Len(frac) = 1 THEN 10 * DigitsValue(frac) ELSE DigitsValue(frac))
  ELSE NaN

Decimal(parts) ==
  IF Len(parts) = 1 THEN Hundredths(parts[1], <<>>)
  ELSE IF Len(parts) = 2 THEN Hundredths(parts[1], parts[2])
  ELSE NaN

Negated(a) == IF a = NaN THEN NaN ELSE 0 - a

\* pd.to_numeric(errors='coerce') on the decimal texts of a statement:
\* [-]digits[.d[d]]; the value in hundredths, NaN for any other text
ToNumeric(s) ==
  IF s # <<>> /\ Head(s) = "-" THEN Negated(Decimal(Split(Tail(s), ".")))
  ELSE Decimal(Split(s, "."))

CurrencyMark == <<"A^", "GBP">>

\* the three statements of the amount-cleaning loop
CleanAmount(cell) ==
  IF cell \in {NoneCell, <<>>, <<"n", "a", "n">>} THEN ToNumeric(<<"0">>)
  ELSE ToNumeric(ReplaceChar(RemovePair(cell, CurrencyMark), ",", <<>>))

MonthNames == << <<"J", "a", "n">>, <<"F", "e", "b">> >>

DaysInMonth == <<31, 29>>

BaseYear == 2024

\* the day ordinal of day d of month m of BaseYear, NaT for no such day
Ordinal(d, m) == IF d \in 1..DaysInMonth[m] THEN 31 * (m - 1) + d ELSE NaT

DateOf(parts) ==
  IF /\ Len(parts) = 3
     /\ AllDigits(parts[1]) /\ Len(parts[1]) <= 2
     /\ \E m \in 1..Len(MonthNames) : MonthNames[m] = parts[2]
     /\ AllDigits(parts[3]) /\ Len(parts[3]) = 4
     /\ DigitsValue(parts[3]) = BaseYear
  THEN Ordinal(DigitsValue(parts[1]),
               CHOOSE m \in 1..Len(MonthNames) : MonthNames[m] = parts[2])
  ELSE NaT

\* pd.to_datetime(format='%d %b %Y', errors='coerce'): the day ordinal of a
\* date of BaseYear, NaT for any other text and for None
ParseDate(cell) == IF cell = NoneCell THEN NaT ELSE DateOf(Split(cell, " "))

\* astype(str).str.replace('\n', ' ').str.strip()
CleanDescription(cell) ==
  IF cell = NoneCell THEN <<"N", "o", "n", "e">>
  ELSE Strip(ReplaceChar(cell, "\n", <<" ">>))

(* -------------------------- extract_account_number --------------------- *)
Unknown == <<"U", "n", "k", "n", "o", "w", "n">>

\* the pattern --(\d+)-(\d+)-- matches at position s with groups of
\* lengths a and b
MatchAt(name, s, a, b) ==
  /\ s + 4 + a + b <= Len(name)
  /\ SubSeq(name, s, s + 1) = <<"-", "-">>
  /\ AllDigits(SubSeq(name, s + 2, s + 1 + a))
  /\ name[s + 2 + a] = "-"
  /\ AllDigits(SubSeq(name, s + 3 + a, s + 2 + a + b))
  /\ SubSeq(name, s + 3 + a + b, s + 4 + a + b) = <<"-", "-">>

\* sort code, hyphen, account number of the match h
Groups(name, h) ==
  SubSeq(name, h[1] + 2, h[1] + 1 + h[2]) \o <<"-">>
    \o SubSeq(name, h[1] + 3 + h[2], h[1] + 2 + h[2] + h[3])

\* the leftmost of the matches
FirstMatch(name, Hits) ==
  IF Hits = {} THEN Unknown
  ELSE Groups(name, CHOOSE x \in Hits : \A y \in Hits : x[1] <= y[1])

extract_account_number(name) ==
  FirstMatch(name, {h \in (1..Len(name)) \X (1..Len(name)) \X (1..Len(name)) :
                      MatchAt(name, h[1], h[2], h[3])})

(* ----------------------------- parse_description ----------------------- *)
Empty5 == << <<>>, <<>>, <<>>, <<>>, <<>> >>

Empty4 == << <<>>, <<>>, <<>>, <<>> >>

\* the first n stripped parts, '' where absent
FirstParts(parts, n) == [k \in 1..n |-> IF k <= Len(parts) THEN Strip(parts[k]) ELSE <<>>]

Parts(description, n) == FirstParts(Split(description, ","), n)

parse_description(type, description) ==
  IF type = <<"D", "P", "C">> /\ description # <<>>
  THEN [DPC |-> Parts(description, 5), POS |-> Empty4]
  ELSE IF type = <<"P", "O", "S">> /\ description # <<>>
  THEN [DPC |-> Empty5, POS |-> Parts(description, 4)]
  ELSE [DPC |-> Empty5, POS |-> Empty4]

(* ------------------------- extract_table_from_pdf ---------------------- *)
DateLabel == <<"D", "a", "t", "e">>

DefaultHeaders ==
  << DateLabel,
     <<"T", "y", "p", "e">>,
     <<"D", "e", "s", "c", "r", "i", "p", "t", "i", "o", "n">>,
     <<"P", "a", "i", "d", " ", "i", "n">>,
     <<"P", "a", "i", "d", " ", "o", "u", "t">>,
     <<"B", "a", "l", "a", "n", "c", "e">> >>

\* a page loop that never skips a header row
AddPageWithHeader(all_data, table) == all_data \o table

\* all_data after one page
AddPage(all_data, table) ==
  IF table = <<>> THEN all_data
  ELSE IF table[1][1] = DateLabel
       THEN IF all_data = <<>> THEN all_data \o table ELSE all_data \o Tail(table)
       ELSE all_data \o table

\* the loop over pdf.pages: all_data after the pages of the document
RECURSIVE CollectPages(_, _)
CollectPages(pages, all_data) ==
  IF pages = <<>> THEN all_data
  ELSE CollectPages(Tail(pages), AddPage(all_data, Head(pages)))

\* the three returns after the loop; headers None is <<>>
Returned(all_data) ==
  IF all_data # <<>> /\ all_data[1][1] = DateLabel
  THEN [headers |-> all_data[1], data |-> Tail(all_data)]
  ELSE IF all_data # <<>>
  THEN [headers |-> DefaultHeaders, data |-> all_data]
  ELSE [headers |-> <<>>, data |-> <<>>]

\* (headers, all_data) as returned.  A document that cannot be opened
\* raises inside the try and yields (None, []).
extract_table_from_pdf(content) ==
  IF ~content.opens THEN [headers |-> <<>>, data |-> <<>>]
  ELSE Returned(CollectPages(content.pages, <<>>))

(* ------------------------------ DataFrames ----------------------------- *)
HasCol(headers, name) == \E k \in 1..Len(headers) : headers[k] = name

\* df[name] of one row of DataFrame(table_data, columns=headers)
CellAt(row, k) == IF k <= Len(row) THEN row[k] ELSE NoneCell

Col(headers, row, name) ==
  CellAt(row, CHOOSE c \in 1..Len(headers) : headers[c] = name)

RequiredCols == {DefaultHeaders[1], DefaultHeaders[3], DefaultHeaders[4],
                 DefaultHeaders[5], DefaultHeaders[6]}

\* the exceptions of the per-document block: the DataFrame constructor
\* rejects rows wider or narrower than the header (ValueError), and df[col]
\* of a column the header does not name is a KeyError
NormalizeRaises(headers, data) ==
  \/ \A k \in 1..Len(data) : Len(data[k]) < Len(headers)
  \/ \E k \in 1..Len(data) : Len(data[k]) > Len(headers)
  \/ \E name \in RequiredCols : ~HasCol(headers, name)

\* row.get('Type', '')
TypeOf(headers, row) ==
  IF HasCol(headers, DefaultHeaders[2]) THEN Col(headers, row, DefaultHeaders[2]) ELSE <<>>

\* sort orders of sort_values: by (Account_Number, Date), by Date, and by
\* Original_Order with missing values last
Less(by, a, b) ==
  IF by = "Account_Number,Date"
  THEN \/ StrLess(a.Account_Number, b.Account_Number)
       \/ a.Account_Number = b.Account_Number /\ a.Date < b.Date
  ELSE IF by = "Date" THEN a.Date < b.Date
  ELSE a.Original_Order # NaN /\ (b.Original_Order = NaN \/ a.Original_Order < b.Original_Order)

\* an insertion that is not stable: x goes in front of the rows it ties with
RECURSIVE InsertBeforeEqual(_, _, _)
InsertBeforeEqual(by, sorted, x) ==
  IF sorted = <<>> THEN <<x>>
  ELSE IF ~Less(by, Head(sorted), x) THEN <<x>> \o sorted
  ELSE <<Head(sorted)>> \o InsertBeforeEqual(by, Tail(sorted), x)

\* x goes behind every row that does not sort after it
RECURSIVE InsertStable(_, _, _)
InsertStable(by, sorted, x) ==
  IF sorted = <<>> THEN <<x>>
  ELSE IF Less(by, x, Head(sorted)) THEN <<x>> \o sorted
  ELSE <<Head(sorted)>> \o InsertStable(by, Tail(sorted), x)

RECURSIVE SortFrom(_, _, _)
SortFrom(by, rest, sorted) ==
  IF rest = <<>> THEN sorted
  ELSE SortFrom(by, Tail(rest), InsertStable(by, sorted, Head(rest)))

\* a stable sort: sort_values on several columns, which pandas sorts with
\* a stable lexsort, and on the unique Original_Order
sort_values(df, by) == SortFrom(by, df, <<>>)

(* ----------------------- process_files: one document ------------------- *)
InputFolder == <<"i", "n">>

NaN5 == <<NaNText, NaNText, NaNText, NaNText, NaNText>>

NaN4 == <<NaNText, NaNText, NaNText, NaNText>>

\* one row of DataFrame(table_data, columns=headers) after the conversions
Typed(headers, row, label) ==
  [idx |-> label,
   Date |-> ParseDate(Col(headers, row, DefaultHeaders[1])),
   Type |-> TypeOf(headers, row),
   Description |-> CleanDescription(Col(headers, row, DefaultHeaders[3])),
   PaidIn |-> CleanAmount(Col(headers, row, DefaultHeaders[4])),
   PaidOut |-> CleanAmount(Col(headers, row, DefaultHeaders[5])),
   Balance |-> CleanAmount(Col(headers, row, DefaultHeaders[6]))]

\* dropna(how='all')
AllNone(row) == \A c \in 1..Len(row) : row[c] = NoneCell

\* dropna(subset=['Date'])
Dated(r) == IF r.Date # NaT THEN <<r>> ELSE <<>>

\* DataFrame(table_data, columns=headers) through dropna(subset=['Date']):
\* the typed rows that keep their date, each with the index label it had
\* in table_data
RECURSIVE CleanRowsFrom(_, _, _)
CleanRowsFrom(headers, data, k) ==
  IF k > Len(data) THEN <<>>
  ELSE (IF AllNone(data[k]) THEN <<>> ELSE Dated(Typed(headers, data[k], k - 1)))
         \o CleanRowsFrom(headers, data, k + 1)

CleanRows(headers, data) == CleanRowsFrom(headers, data, 1)

RECURSIVE Ascending(_)
Ascending(S) ==
  IF S = {} THEN <<>>
  ELSE LET m == CHOOSE x \in S : \A y \in S : x <= y
       IN <<m>> \o Ascending(S \ {m})

\* the index of pd.concat([df, parsed_df], axis=1): the union of the labels
\* of df and of the fresh labels 0..n-1 of parsed_df.  The order of a union
\* of unequal indexes depends on the pandas release: sorted, or the labels
\* of df followed by the labels only parsed_df has.
UnionIndex(labels, n, sorted) ==
  IF sorted
  THEN Ascending({labels[k] : k \in 1..Len(labels)} \cup (0..(n - 1)))
  ELSE labels \o Ascending({l \in 0..(n - 1) : \A k \in 1..Len(labels) : labels[k] # l})

\* the columns of df in the joined row of label l: those of the row r at
\* position k of df, or missing values when df has no row of that label
Joined(l, has, r, k, name, account, parsed) ==
  [idx |-> l,
   Date |-> IF has THEN r.Date ELSE NaT,
   Type |-> IF has THEN r.Type ELSE NaNText,
   Description |-> IF has THEN r.Description ELSE NaNText,
   PaidIn |-> IF has THEN r.PaidIn ELSE NaN,
   PaidOut |-> IF has THEN r.PaidOut ELSE NaN,
   Balance |-> IF has THEN r.Balance ELSE NaN,
   File_Path |-> IF has THEN InputFolder \o <<"/">> \o name ELSE NaNText,
   Source_File |-> IF has THEN name ELSE NaNText,
   Account_Number |-> IF has THEN account ELSE NaNText,
   Original_Order |-> IF has THEN k - 1 ELSE NaN,
   DPC |-> parsed.DPC,
   POS |-> parsed.POS]

\* the position in df of label l, 0 when df has no such row
PositionOf(rows, l) ==
  IF \E k \in 1..Len(rows) : rows[k].idx = l
  THEN CHOOSE k \in 1..Len(rows) : rows[k].idx = l
  ELSE 0

\* the row of parsed_df labelled l: the parsed description of the row at
\* position l + 1 of df, or missing values
ParsedAt(rows, l) ==
  IF l < Len(rows) THEN parse_description(rows[l + 1].Type, rows[l + 1].Description)
  ELSE [DPC |-> NaN5, POS |-> NaN4]

JoinAt(rows, l, k, name, account) ==
  Joined(l, k > 0, rows[IF k > 0 THEN k ELSE 1], k, name, account, ParsedAt(rows, l))

JoinRows(rows, labels, name, account) ==
  [j \in 1..Len(labels) |->
     JoinAt(rows, labels[j], PositionOf(rows, labels[j]), name, account)]

\* df with provenance and Original_Order, joined by index label to the
\* parsed descriptions, which are labelled by position
JoinParsed(rows, name, account, sorted) ==
  JoinRows(rows, UnionIndex([k \in 1..Len(rows) |-> rows[k].idx], Len(rows), sorted),
           name, account)

\* the frame appended to all_dfs for one document of the given name and
\* account number
BuildFrame(name, account, headers, data, sorted) ==
  JoinParsed(CleanRows(headers, data), name, account, sorted)

(* ------------------------ process_files: the merge --------------------- *)
RECURSIVE Concat(_)
Concat(dfs) == IF dfs = <<>> THEN <<>> ELSE Head(dfs) \o Concat(Tail(dfs))

\* a duplicate key of every column, provenance included
DuplicateKeyAllColumns(r) == r

\* duplicate_cols
DuplicateKey(r) ==
  <<r.Date, r.Account_Number, r.Description, r.Type, r.PaidIn, r.PaidOut, r.Balance>>

\* drop_duplicates(subset=duplicate_cols): the first row of each key stays
RECURSIVE DropFrom(_, _)
DropFrom(df, seen) ==
  IF df = <<>> THEN <<>>
  ELSE IF DuplicateKey(Head(df)) \in seen THEN DropFrom(Tail(df), seen)
  ELSE <<Head(df)>> \o DropFrom(Tail(df), seen \cup {DuplicateKey(Head(df))})

drop_duplicates(df) == DropFrom(df, {})

\* x['Date'].strftime raises for a row without a date
TransactionIdRaises(df) == \E k \in 1..Len(df) : df[k].Date = NaT

\* a merge that sorts by date alone
MergeStepByDate(dfs) == sort_values(drop_duplicates(Concat(dfs)), "Date")

\* concat, drop_duplicates, sort_values: combined_df as saved
MergeStep(dfs) == sort_values(drop_duplicates(Concat(dfs)), "Account_Number,Date")

(* -------------------- create_balance_validation_file ------------------- *)
\* float arithmetic on hundredths: NaN in, NaN out
Plus(a, b) == IF a = NaN \/ b = NaN THEN NaN ELSE a + b

Minus(a, b) == IF a = NaN \/ b = NaN THEN NaN ELSE a - b

Abs(a) == IF a = NaN THEN NaN ELSE IF a < 0 THEN 0 - a ELSE a

\* at least, instead of more than
GreaterOrEqual(a, b) == a # NaN /\ b # NaN /\ a >= b

\* a comparison with NaN is False
Greater(a, b) == a # NaN /\ b # NaN /\ a > b

Tolerance == 1

\* the four columns of a record with balance, paid in, paid out and the
\* balance of the next record of its group
Columns(r, Next_Balance, Calc_Next_Balance) ==
  [row |-> r,
   Next_Balance |-> Next_Balance,
   Calc_Next_Balance |-> Calc_Next_Balance,
   Balance_Diff |-> Minus(Next_Balance, Calc_Next_Balance),
   Has_Discrepancy |-> Greater(Abs(Minus(Next_Balance, Calc_Next_Balance)), Tolerance)]

\* the four column assignments on one group; shift(-1) leaves the last
\* Next_Balance missing
Annotate(group) ==
  [k \in 1..Len(group) |->
     Columns(group[k],
             IF k < Len(group) THEN group[k + 1].Balance ELSE NaN,
             Minus(Plus(group[k].Balance, group[k].PaidIn), group[k].PaidOut))]

\* group_df.sort_values('Date') sorts one column with the default
\* kind='quicksort', which is not stable: rows of equal date come out in an
\* order the build decides.  The set of all date-sorted orders of a group.
RECURSIVE Arrangements(_, _)
Arrangements(group, S) ==
  IF S = {} THEN {<<>>}
  ELSE UNION {{<<group[k]>> \o t : t \in Arrangements(group, S \ {k})} :
              k \in {x \in S : \A y \in S : group[x].Date <= group[y].Date}}

\* the rows of one account, in frame order
GroupOf(df, account) ==
  LET Is(r) == r.Account_Number = account
  IN SelectSeq(df, Is)

\* the annotated frames of the groups of the accounts from a on
RECURSIVE GroupsFrom(_, _)
FirstGroup(df, accounts, a) ==
  {Annotate(h) \o rest :
     h \in Arrangements(GroupOf(df, a), 1..Len(GroupOf(df, a))),
     rest \in GroupsFrom(df, accounts \ {a})}

\* groupby iterates the accounts in ascending order
GroupsFrom(df, accounts) ==
  IF accounts = {} THEN {<<>>}
  ELSE FirstGroup(df, accounts, CHOOSE x \in accounts : \A y \in accounts : x = y \/ StrLess(x, y))

Accounts(df) == {df[k].Account_Number : k \in 1..Len(df)}

Grouped(sorted) == GroupsFrom(sorted, Accounts(sorted))

\* the frames final_df can be for a merged ledger
create_balance_validation_file(df) == Grouped(sort_values(df, "Account_Number,Date"))

\* final_df['Has_Discrepancy'].sum()
Discrepancies(final_df) == Cardinality({k \in 1..Len(final_df) : final_df[k].Has_Discrepancy})

(* ------------------------------- inputs -------------------------------- *)
\* file names of the input folder: two statements of account 60-01 and one
\* of account 7-1
FileNames ==
  { <<"-", "-", "6", "0", "-", "0", "1", "-", "-", "a">>,
    <<"-", "-", "6", "0", "-", "0", "1", "-", "-", "b">>,
    <<"-", "-", "7", "-", "1", "-", "-">> }

D05 == <<"0", "5", " ", "J", "a", "n", " ", "2", "0", "2", "4">>

D06 == <<"0", "6", " ", "J", "a", "n", " ", "2", "0", "2", "4">>

\* 05 Jan 2024, DPC, six comma-separated parts, paid in 10.00,
\* balance 1,100.00 with the currency mark
RowA ==
  << D05, <<"D", "P", "C">>,
     <<"A", ",", " ", "B", ",", "C", ",", "D", ",", "E", ",", "F">>,
     <<"1", "0", ".", "0", "0">>, <<>>,
     <<"A^", "GBP", "1", ",", "1", "0", "0", ".", "0", "0">> >>

\* 06 Jan 2024, POS, two parts, balance 1110.01
RowB ==
  << D06, <<"P", "O", "S">>, <<"P", ",", " ", "Q">>,
     NoneCell, <<"0">>, <<"1", "1", "1", "0", ".", "0", "1">> >>

\* 06 Jan 2024, TFR, a two-line description, an unparsable paid-in cell,
\* balance 1,110.03
RowC ==
  << D06, <<"T", "F", "R">>, <<" ", "X", "\n", "Y", " ">>,
     <<"n", "/", "a">>, <<>>, <<"1", ",", "1", "1", "0", ".", "0", "3">> >>

\* a running-total row: no date
RowTotal ==
  << <<"T", "o", "t", "a", "l">>, <<"D", "P", "C">>, <<"T", ",", "U">>,
     <<>>, <<>>, <<"1", "1", "0", "0", ".", "0", "0">> >>

\* a header row that names the balance column differently
OtherHeaders == [DefaultHeaders EXCEPT ![6] = <<"A", "m", "o", "u", "n", "t">>]

RowsOf(d) ==
  IF d = "ledger" THEN {RowA, RowB, RowTotal}
  ELSE IF d = "recon" THEN {RowA, RowB, RowC}
  ELSE {RowA, RowB}

SeqsUpTo(S, n) == UNION {[1..k -> S] : k \in 0..n}

\* the rows of a page table that are not its leading header row
DataRows(table) ==
  IF table # <<>> /\ table[1][1] = DateLabel THEN Len(table) - 1 ELSE Len(table)

\* the data rows of a document
RECURSIVE RowCount(_)
RowCount(pages) ==
  IF pages = <<>> THEN 0 ELSE DataRows(Head(pages)) + RowCount(Tail(pages))

\* the page tables of up to n rows: with or without a leading header row
\* (a table without header and rows is a page without a table)
PageTables(d, n) ==
  {(IF header THEN <<DefaultHeaders>> ELSE <<>>) \o rows :
     header \in BOOLEAN, rows \in SeqsUpTo(RowsOf(d), n)}

\* the sequences of up to p page tables with up to n rows in all
RECURSIVE PagesUpTo(_, _, _)
PagesUpTo(d, n, p) ==
  IF p = 0 THEN {<<>>}
  ELSE {<<>>} \cup UNION {{<<t>> \o rest : rest \in PagesUpTo(d, n - DataRows(t), p - 1)} :
                            t \in PageTables(d, n)}

\* the documents of up to MaxPages pages and n rows
Paged(d, n) == {[opens |-> TRUE, pages |-> pages] : pages \in PagesUpTo(d, n, MaxPages)}

\* what a document of the folder can hold: a file that cannot be opened, a
\* page with a foreign header, one page with the header and up to n rows,
\* or, in the domain "pages", any pages of up to n rows
Contents(d, n) ==
  {[opens |-> FALSE, pages |-> <<>>]}
  \cup {[opens |-> TRUE, pages |-> << <<OtherHeaders, RowA>> >>] : k \in 1..(IF n > 0 THEN 1 ELSE 0)}
  \cup {[opens |-> TRUE, pages |-> << <<DefaultHeaders>> \o rows >>] :
          rows \in SeqsUpTo(RowsOf(d), n)}
  \cup (IF d = "pages" THEN Paged(d, n) ELSE {})

Batches ==
  {f \in SeqsUpTo(FileNames, MaxDocs) : \A a, b \in 1..Len(f) : a # b => f[a] # f[b]}

(* ---------------------------- process_files ---------------------------- *)
\* domain and rows_left delimit the documents read; last_read is the
\* document of the latest call of extract_table_from_pdf with what the call
\* returned; extracted[d] is what it returned for the document of
\* all_dfs[d]; returned is "running" until process_files returns
VARIABLES domain, rows_left, pdf_files, i, last_read, extracted, all_dfs, individual_csv, combined_df,
          validation, discrepancies, returned

vars == <<domain, rows_left, pdf_files, i, last_read, extracted, all_dfs, individual_csv, combined_df,
          validation, discrepancies, returned>>

InitIn(d) ==
  /\ domain = d
  /\ rows_left = MaxRows
  /\ pdf_files \in Batches
  /\ i = 0
  /\ last_read = [opens |-> FALSE, pages |-> <<>>, headers |-> <<>>, data |-> <<>>]
  /\ extracted = <<>>
  /\ all_dfs = <<>>
  /\ individual_csv = <<>>
  /\ combined_df = <<>>
  /\ validation = <<>>
  /\ discrepancies = 0
  /\ returned = "running"

Init == InitIn("ledger")

InitRecon == InitIn("recon")

\* a folder of at most one document, of any pages
InitPages == InitIn("pages") /\ Len(pdf_files) <= 1

\* no PDF files in the input folder
NoPdfFiles ==
  /\ returned = "running"
  /\ pdf_files = <<>>
  /\ returned' = "False"
  /\ UNCHANGED <<domain, rows_left, pdf_files, i, last_read, extracted, all_dfs,
                 individual_csv, combined_df, validation, discrepancies>>

\* one iteration of the loop over pdf_files
ProcessDocument ==
  /\ returned = "running"
  /\ i < Len(pdf_files)
  /\ \E account_number \in {extract_account_number(pdf_files[i + 1])},
        content \in Contents(domain, rows_left), sorted \in BOOLEAN :
       \E ex \in {extract_table_from_pdf(content)} :
          /\ i' = i + 1
          /\ rows_left' = rows_left - RowCount(content.pages)
          /\ last_read' = [opens |-> content.opens, pages |-> content.pages,
                           headers |-> ex.headers, data |-> ex.data]
          /\ IF ex.data = <<>>
             THEN UNCHANGED <<extracted, all_dfs, individual_csv, returned>>
             ELSE IF NormalizeRaises(ex.headers, ex.data)
             THEN /\ returned' = "False"
                  /\ UNCHANGED <<extracted, all_dfs, individual_csv>>
             ELSE \E df \in {BuildFrame(pdf_files[i + 1], account_number, ex.headers, ex.data, sorted)} :
                     /\ extracted' = Append(extracted, ex)
                     /\ all_dfs' = Append(all_dfs, df)
                     /\ individual_csv' = Append(individual_csv, sort_values(df, "Original_Order"))
                     /\ UNCHANGED returned
  /\ UNCHANGED <<domain, pdf_files, combined_df, validation, discrepancies>>

\* the block under "if all_dfs:".  When the concatenation has no rows, the
\* row-wise apply that builds Transaction_ID returns a frame, and whether
\* assigning it to a column raises depends on the pandas release.
Merge ==
  /\ returned = "running"
  /\ i = Len(pdf_files)
  /\ all_dfs # <<>>
  /\ \E deduped \in {drop_duplicates(Concat(all_dfs))} :
       \E raises \in {TransactionIdRaises(deduped)} \cup (IF deduped = <<>> THEN {TRUE} ELSE {}) :
          IF raises
          THEN /\ returned' = "False"
               /\ UNCHANGED <<combined_df, validation, discrepancies>>
          ELSE /\ combined_df' = MergeStep(all_dfs)
               /\ validation' \in create_balance_validation_file(combined_df')
               /\ discrepancies' = Discrepancies(validation')
               /\ returned' = "True"
  /\ UNCHANGED <<domain, rows_left, pdf_files, i, last_read, extracted, all_dfs,
                 individual_csv>>

\* the loop ended with all_dfs empty
NothingToMerge ==
  /\ returned = "running"
  /\ pdf_files # <<>>
  /\ i = Len(pdf_files)
  /\ all_dfs = <<>>
  /\ returned' = "False"
  /\ UNCHANGED <<domain, rows_left, pdf_files, i, last_read, extracted, all_dfs,
                 individual_csv, combined_df, validation, discrepancies>>

Next == NoPdfFiles \/ ProcessDocument \/ Merge \/ NothingToMerge

Spec == Init /\ [][Next]_vars

SpecRecon == InitRecon /\ [][Next]_vars

SpecPages == InitPages /\ [][Next]_vars

(* ------------------------------ properties ----------------------------- *)
Merged == returned = "True"

\* the rows of a document's table whose date text is a date
ParsedRows(ex) ==
  {k \in 1..Len(ex.data) : ParseDate(Col(ex.headers, ex.data[k], DateLabel)) # NaT}

\* C1: every record of every per-document ledger and of the merged ledger
\* has a date, and a per-document ledger has as many records as its
\* document has rows whose date parsed.
C1_DatedLedgers ==
  /\ \A d \in 1..Len(all_dfs) :
       /\ \A k \in 1..Len(all_dfs[d]) : all_dfs[d][k].Date # NaT
       /\ Len(all_dfs[d]) = Cardinality(ParsedRows(extracted[d]))
  /\ \A k \in 1..Len(combined_df) : combined_df[k].Date # NaT

\* the seven compared fields
SameTransaction(a, b) ==
  /\ a.Date = b.Date
  /\ a.Account_Number = b.Account_Number
  /\ a.Description = b.Description
  /\ a.Type = b.Type
  /\ a.PaidIn = b.PaidIn
  /\ a.PaidOut = b.PaidOut
  /\ a.Balance = b.Balance

\* C2: after the merge, no two records of the merged ledger agree on the
\* seven compared fields, and every record of the concatenated
\* per-document ledgers agrees on them with a record of the merged ledger.
C2_OnePerTransaction ==
  Merged =>
    /\ \A j, k \in 1..Len(combined_df) :
         SameTransaction(combined_df[j], combined_df[k]) => j = k
    /\ \A d \in 1..Len(all_dfs) : \A k \in 1..Len(all_dfs[d]) :
         \E j \in 1..Len(combined_df) : SameTransaction(all_dfs[d][k], combined_df[j])
    /\ \A j \in 1..Len(combined_df) :
         \E d \in 1..Len(all_dfs) : \E k \in 1..Len(all_dfs[d]) :
           all_dfs[d][k] = combined_df[j]

\* a merge that dropped a transaction two documents both hold
C2_Witness ==
  /\ Merged
  /\ \E c, d \in 1..Len(all_dfs) : \E j \in 1..Len(all_dfs[c]) : \E k \in 1..Len(all_dfs[d]) :
       /\ c # d
       /\ SameTransaction(all_dfs[c][j], all_dfs[d][k])
       /\ all_dfs[c][j].Source_File # all_dfs[d][k].Source_File
       /\ all_dfs[c][j].Original_Order # all_dfs[d][k].Original_Order

\* C3: the run does not end before every document of the batch has been
\* attempted.
C3_EveryDocumentAttempted == returned # "running" => i = Len(pdf_files)

\* validation[k] and validation[k + 1] are consecutive records of one account
SameAccountPair(k) ==
  /\ k < Len(validation)
  /\ validation[k].row.Account_Number = validation[k + 1].row.Account_Number

\* the four amounts of the comparison of r with its successor s
Operands(r, s) == {s.Balance, r.Balance, r.PaidIn, r.PaidOut}

\* |s.balance - (r.balance + r.paid_in - r.paid_out)|, in hundredths
Delta(r, s) ==
  LET d == s.Balance - (r.Balance + r.PaidIn - r.PaidOut)
  IN IF d < 0 THEN 0 - d ELSE d

\* C4: for consecutive records r, s of one account in the reconciliation
\* output, has_discrepancy of r is true exactly when |s.balance - (r.balance
\* + r.paid_in - r.paid_out)| exceeds one hundredth, and the next balance of
\* r is the balance of s; a record followed by another account's record
\* takes no next balance from it.
C4_DiscrepancyIffDelta ==
  Merged =>
    \A k \in 1..Len(validation) :
      IF SameAccountPair(k)
      THEN LET r == validation[k].row
               s == validation[k + 1].row
           IN /\ validation[k].Next_Balance = s.Balance
              /\ validation[k].Has_Discrepancy
                   <=> (NaN \notin Operands(r, s) /\ Delta(r, s) > 1)
      ELSE validation[k].Next_Balance = NaN

\* a reconciliation of two accounts with a flagged transition and an
\* unflagged transition that is off by exactly one hundredth
C4_Witness ==
  /\ Merged
  /\ \E k \in 1..Len(validation) : SameAccountPair(k) /\ validation[k].Has_Discrepancy
  /\ \E k \in 1..Len(validation) :
       /\ SameAccountPair(k)
       /\ ~validation[k].Has_Discrepancy
       /\ NaN \notin Operands(validation[k].row, validation[k + 1].row)
       /\ Delta(validation[k].row, validation[k + 1].row) = 1
  /\ \E k \in 1..(Len(validation) - 1) : ~SameAccountPair(k)

\* C5: the last record of every account group of the reconciliation output
\* has no next_balance, no balance_delta and no has_discrepancy: its
\* has_discrepancy is neither true nor false.
C5_LastRecordAbsent ==
  Merged =>
    \A k \in 1..Len(validation) :
      ~SameAccountPair(k) =>
        /\ validation[k].Next_Balance = NaN
        /\ validation[k].Balance_Diff = NaN
        /\ validation[k].Has_Discrepancy \notin {TRUE, FALSE}

\* C6: a record that is not the last of its account and whose comparison
\* lacks an amount is not reported as "no discrepancy".
C6_CannotEvaluateMarked ==
  Merged =>
    \A k \in 1..Len(validation) :
      (SameAccountPair(k) /\ NaN \in Operands(validation[k].row, validation[k + 1].row))
        => validation[k].Has_Discrepancy # FALSE

\* C7: in the reconciliation output, consecutive records of one account
\* with the same date are in ascending original_order.
C7_TiesByOriginalOrder ==
  Merged =>
    \A k \in 1..Len(validation) :
      (SameAccountPair(k) /\ validation[k].row.Date = validation[k + 1].row.Date)
        => validation[k].row.Original_Order <= validation[k + 1].row.Original_Order

\* C8: adjacent records a, b of the merged ledger have a.account_number <
\* b.account_number, or the same account number and a.date <= b.date.
C8_MergedOrder ==
  Merged =>
    \A k \in 1..(Len(combined_df) - 1) :
      LET a == combined_df[k]
          b == combined_df[k + 1]
      IN \/ StrLess(a.Account_Number, b.Account_Number)
         \/ a.Account_Number = b.Account_Number /\ a.Date <= b.Date

\* a merge whose concatenated input was out of order both by account and,
\* within one account, by date
C8_Witness ==
  /\ Merged
  /\ LET all == Concat(all_dfs)
     IN /\ \E j, k \in 1..Len(all) :
             j < k /\ StrLess(all[k].Account_Number, all[j].Account_Number)
        /\ \E j, k \in 1..Len(all) :
             /\ j < k
             /\ all[j].Account_Number = all[k].Account_Number
             /\ all[k].Date < all[j].Date

\* C9: merging the merged ledger with itself yields the merged ledger, in
\* the same order.
C9_MergeIdempotent == Merged => MergeStep(<<combined_df, combined_df>>) = combined_df

\* a merged ledger with two records of one account and one date
C9_Witness ==
  /\ Merged
  /\ \E k \in 1..(Len(combined_df) - 1) :
       /\ combined_df[k].Account_Number = combined_df[k + 1].Account_Number
       /\ combined_df[k].Date = combined_df[k + 1].Date

\* C10: the decomposed fields of every record of a per-document ledger are
\* the decomposition of that record's own type and description.
C10_OwnDescription ==
  \A d \in 1..Len(all_dfs) : \A k \in 1..Len(all_dfs[d]) :
    LET r == all_dfs[d][k]
        own == parse_description(r.Type, r.Description)
    IN r.DPC = own.DPC /\ r.POS = own.POS

\* C12: original_order of every record of a per-document ledger is the
\* zero-based position of the record's row in the row sequence the reader
\* returned for the document; it is never missing and it increases with
\* the position of the row.
C12_OriginalOrderIsPosition ==
  \A d \in 1..Len(all_dfs) :
    /\ \A k \in 1..Len(all_dfs[d]) :
         /\ all_dfs[d][k].Original_Order # NaN
         /\ all_dfs[d][k].idx < Len(extracted[d].data)
         /\ all_dfs[d][k].Original_Order = all_dfs[d][k].idx
    /\ \A j, k \in 1..Len(all_dfs[d]) :
         all_dfs[d][j].idx < all_dfs[d][k].idx
           => all_dfs[d][j].Original_Order < all_dfs[d][k].Original_Order

\* the rows of a page table behind its leading header row, if it has one
WithoutHeader(table) ==
  IF table # <<>> /\ table[1][1] = DateLabel THEN Tail(table) ELSE table

\* the rows of all pages, page by page, without the leading header rows
RECURSIVE RowsOfPages(_)
RowsOfPages(pages) ==
  IF pages = <<>> THEN <<>> ELSE WithoutHeader(Head(pages)) \o RowsOfPages(Tail(pages))

\* C11: the row sequence extract_table_from_pdf returns for a document is
\* the rows of its pages in page order and row order, each once, without
\* the header row a page begins with.
C11_RowsOfEveryPage ==
  last_read.opens =>
    /\ last_read.data = RowsOfPages(last_read.pages)
    /\ \A k \in 1..Len(last_read.data) : last_read.data[k][1] # DateLabel

\* a document read whose first page has rows and no header and whose second
\* page begins with the header and has rows
C11_Witness ==
  /\ last_read.opens
  /\ Len(last_read.pages) >= 2
  /\ Len(last_read.pages[1]) >= 1
  /\ last_read.pages[1][1][1] # DateLabel
  /\ Len(last_read.pages[2]) >= 2
  /\ last_read.pages[2][1][1] = DateLabel

=============================================================================
